---- MODULE Spec2Model ----
(***************************************************************************)
(* Model of bls_perf: the BLS12-381 verification engine                    *)
(* (src/bls12381/signature_validator.rs, private_key.rs), the measurement  *)
(* macro perf! (src/utils.rs, src/cli.rs) and the instruction cost model   *)
(* (src/calc.rs).                                                          *)
(*                                                                         *)
(* u32/usize values do not fit TLC's integers, so they are kept as exact   *)
(* naturals written as little-endian sequences of base-10^4 limbs; the     *)
(* 32-bit width is kept by comparing against U32Max.                       *)
(***************************************************************************)
EXTENDS Integers, Sequences, FiniteSets, TLC

VARIABLES
    measure_method,  \* cli::MEASURE_METHOD, the process-wide method selector
    harness_ok,      \* whether the counting / perf_event harness can be set up
    pairs,           \* pub_keys_and_msgs of the current verification task
    signature,       \* signature bytes of the current verification task
    ret_agg,         \* outcome of aggregate_verify_bls12381_v1 on the task
    ret_thr,         \* outcome of aggregate_verify_bls12381_v1_threaded
    stages,          \* stages run by the last aggregate_verify_bls12381_v1 call
    perf_ret,        \* last measurement taken through perf!
    kret,            \* last call of Bls12381G1PrivateKey::from_bytes
    message,         \* message of the single-message operations
    public_keys,     \* public_keys of fast_aggregate_verify_bls12381_v1
    vret,            \* last call of verify / fast_aggregate_verify
    sizes,           \* message sizes handed to the cost model
    ret              \* last call of a cost function

aggVars == <<measure_method, harness_ok, pairs, ret_agg, ret_thr, stages>>

verifyVars == <<message, public_keys, vret>>

calcVars == <<sizes, ret>>

auxVars == <<perf_ret, kret>>

vars == <<aggVars, signature, verifyVars, calcVars, auxVars>>

----------------------------------------------------------------------------
(* The curve library (blst) as the engine calls it.  The groups G1, G2 and  *)
(* GT are written additively as the integers modulo GroupOrder: the point  *)
(* p is p times the generator, the pairing e(p, q) is p*q, and a product   *)
(* of pairings is a sum.                                                   *)

GroupOrder == 5

MaxMsg == 2

MaxPairs == 2

MaxKeys == 2

Scalars == 0..(GroupOrder - 1)

\* valid secret scalars (blst rejects zero and values >= the group order)
SecretKeys == 1..(GroupOrder - 1)

Messages == 0..(MaxMsg - 1)

\* Serialized points (48-byte G1, 96-byte G2).  A code below GroupOrder is
\* the compressed form of that point of the prime-order subgroup (0 is the
\* point at infinity), OffGroupBytes is a curve point outside the subgroup,
\* BadBytes is no encoding of a curve point.
OffGroupBytes == GroupOrder

BadBytes == GroupOrder + 1

ByteCodes == 0..BadBytes

OffGroupPoint == [in_group |-> FALSE, p |-> 0]

\* PublicKey::from_bytes / Signature::from_bytes: decoding checks the
\* encoding and curve membership, not the subgroup
from_bytes(code) ==
    IF code < GroupOrder THEN [ok |-> TRUE, point |-> [in_group |-> TRUE, p |-> code]]
    ELSE IF code = OffGroupBytes THEN [ok |-> TRUE, point |-> OffGroupPoint]
    ELSE [ok |-> FALSE, point |-> OffGroupPoint]

\* PublicKey::to_bytes / Signature::to_bytes
to_bytes(point) == IF point.in_group THEN point.p ELSE OffGroupBytes

is_inf(point) == point.in_group /\ point.p = 0

\* SecretKey::sk_to_pk
sk_to_pk(sk) == [in_group |-> TRUE, p |-> sk % GroupOrder]

\* blst_hash_to_g2 under the ciphersuite tag: distinct messages hash to
\* distinct points, none of them the point at infinity
blst_hash_to_g2(msg) == [in_group |-> TRUE, p |-> (2 * msg + 1) % GroupOrder]

\* SecretKey::sign
sign(sk, msg) == [in_group |-> TRUE, p |-> (sk * blst_hash_to_g2(msg).p) % GroupOrder]

\* group addition; a sum with a point outside the subgroup is taken to
\* stay outside it
point_add(a, b) ==
    IF a.in_group /\ b.in_group
    THEN [in_group |-> TRUE, p |-> (a.p + b.p) % GroupOrder]
    ELSE OffGroupPoint

\* PublicKey::validate
pk_validate(pk) ==
    IF is_inf(pk) THEN "BLST_PK_IS_INFINITY"
    ELSE IF ~pk.in_group THEN "BLST_POINT_NOT_IN_GROUP"
    ELSE "BLST_SUCCESS"

\* Signature::validate(sig_infcheck)
validate(sig, sig_infcheck) ==
    IF sig_infcheck /\ is_inf(sig) THEN "BLST_PK_IS_INFINITY"
    ELSE IF ~sig.in_group THEN "BLST_POINT_NOT_IN_GROUP"
    ELSE "BLST_SUCCESS"

\* Pairing::new: nothing accumulated yet
Pairing_new == [gt_set |-> FALSE, gt |-> 0]

\* Pairing::aggregate(pk, pk_validate, no signature, msg): multiplies
\* e(pk, H(msg)) into the accumulator
Pairing_aggregate(ctx, pk, validate_pk, msg) ==
    IF is_inf(pk) THEN [err |-> "BLST_PK_IS_INFINITY", ctx |-> ctx]
    ELSE IF validate_pk /\ ~pk.in_group
    THEN [err |-> "BLST_POINT_NOT_IN_GROUP", ctx |-> ctx]
    ELSE [err |-> "BLST_SUCCESS",
          ctx |-> [gt_set |-> TRUE,
                   gt |-> (ctx.gt + pk.p * blst_hash_to_g2(msg).p) % GroupOrder]]

\* Pairing::commit
Pairing_commit(ctx) == ctx

\* Pairing::aggregated: e(G1 generator, sig)
Pairing_aggregated(sig) == sig.p % GroupOrder

\* Pairing::finalverify(Some(gtsig))
Pairing_finalverify(ctx, gtsig) == ctx.gt_set /\ ctx.gt = gtsig

RECURSIVE AggregateAll(_, _, _, _, _)
AggregateAll(ctx, pks, validate_pks, msgs, i) ==
    IF i > Len(pks) THEN [err |-> "BLST_SUCCESS", ctx |-> ctx]
    ELSE LET r == Pairing_aggregate(ctx, pks[i], validate_pks, msgs[i])
         IN IF r.err # "BLST_SUCCESS" THEN r
            ELSE AggregateAll(r.ctx, pks, validate_pks, msgs, i + 1)

\* Signature::aggregate_verify(sig_groupcheck, msgs, dst, pks, pks_validate)
Signature_aggregate_verify(sig, sig_groupcheck, msgs, pks, pks_validate) ==
    IF Len(pks) = 0 \/ Len(msgs) # Len(pks) THEN "BLST_VERIFY_FAIL"
    ELSE LET acc == AggregateAll(Pairing_new, pks, pks_validate, msgs, 1)
         IN IF acc.err # "BLST_SUCCESS" THEN acc.err
            ELSE IF sig_groupcheck /\ validate(sig, FALSE) # "BLST_SUCCESS"
            THEN validate(sig, FALSE)
            ELSE IF Pairing_finalverify(Pairing_commit(acc.ctx), Pairing_aggregated(sig))
            THEN "BLST_SUCCESS"
            ELSE "BLST_VERIFY_FAIL"

\* Signature::verify(sig_groupcheck, msg, dst, aug, pk, pk_validate)
Signature_verify(sig, sig_groupcheck, msg, pk, validate_pk) ==
    Signature_aggregate_verify(sig, sig_groupcheck, <<msg>>, <<pk>>, validate_pk)

----------------------------------------------------------------------------
(* src/bls12381/private_key.rs and the key / signature value types         *)

public_key(sk) == to_bytes(sk_to_pk(sk))

sign_v1(sk, msg) == to_bytes(sign(sk, msg))

RECURSIVE SumPoints(_, _)
SumPoints(codes, i) ==
    IF i = Len(codes) THEN from_bytes(codes[i]).point
    ELSE point_add(from_bytes(codes[i]).point, SumPoints(codes, i + 1))

AllDecode(codes) == \A i \in 1..Len(codes) : from_bytes(codes[i]).ok

\* Bls12381G1PublicKey::aggregate: point summation; fails on a key that
\* does not decode (and on no keys at all)
Bls12381G1PublicKey_aggregate(keys) ==
    IF keys = <<>> \/ ~AllDecode(keys) THEN [ok |-> FALSE, bytes |-> BadBytes]
    ELSE [ok |-> TRUE, bytes |-> to_bytes(SumPoints(keys, 1))]

\* Bls12381G2Signature::aggregate: point summation; fails on an empty list
Bls12381G2Signature_aggregate(sigs) ==
    IF sigs = <<>> \/ ~AllDecode(sigs) THEN [ok |-> FALSE, bytes |-> BadBytes]
    ELSE [ok |-> TRUE, bytes |-> to_bytes(SumPoints(sigs, 1))]

----------------------------------------------------------------------------
(* src/utils.rs: perf!.  The measured expression is evaluated under       *)
(* "none", and under "count" / "perf" when the harness can be set up; any  *)
(* other method name, the unset selector's empty string included, panics.  *)

Methods == {"count", "perf", "none", "bogus"}

perf_runs(method, harness) ==
    CASE method = "count" -> harness
      [] method = "perf" -> harness
      [] method = "none" -> TRUE
      [] OTHER -> FALSE

----------------------------------------------------------------------------
(* src/bls12381/signature_validator.rs.  Outcomes are "true", "false" and  *)
(* "panic".                                                                *)

Bool(b) == IF b THEN "true" ELSE "false"

\* a key that does not decode is let through
verify_bls12381_v1_lenient(msg, pk_bytes, sig_bytes) ==
    LET sig == from_bytes(sig_bytes)
        pk  == from_bytes(pk_bytes)
    IN IF sig.ok
       THEN IF pk.ok
            THEN Bool(Signature_verify(sig.point, TRUE, msg, pk.point, TRUE)
                          = "BLST_SUCCESS")
            ELSE "true"
       ELSE "false"

verify_bls12381_v1(msg, pk_bytes, sig_bytes) ==
    LET sig == from_bytes(sig_bytes)
        pk  == from_bytes(pk_bytes)
    IN IF sig.ok
       THEN IF pk.ok
            THEN Bool(Signature_verify(sig.point, TRUE, msg, pk.point, TRUE)
                          = "BLST_SUCCESS")
            ELSE "false"
       ELSE "false"

\* the loop of the "pairing_aggregate" stage
RECURSIVE AggregateLoop(_, _, _)
AggregateLoop(pub_keys_and_msgs, i, pairing) ==
    IF i > Len(pub_keys_and_msgs) THEN [ok |-> TRUE, pairing |-> pairing]
    ELSE LET pk == from_bytes(pub_keys_and_msgs[i].pk)
         IN IF pk.ok
            THEN LET r == Pairing_aggregate(pairing, pk.point, TRUE,
                                            pub_keys_and_msgs[i].msg)
                 IN IF r.err # "BLST_SUCCESS"
                    THEN [ok |-> FALSE, pairing |-> pairing]
                    ELSE AggregateLoop(pub_keys_and_msgs, i + 1, r.ctx)
            ELSE [ok |-> FALSE, pairing |-> pairing]

aggregate_verify_bls12381_v1_no_threads(pub_keys_and_msgs, sig, method, harness) ==
    IF ~perf_runs(method, harness) THEN "panic"
    ELSE LET aggregated == AggregateLoop(pub_keys_and_msgs, 1, Pairing_new)
         IN IF ~aggregated.ok THEN "false"
            ELSE LET pairing  == Pairing_commit(aggregated.pairing)
                     valid    == validate(sig, FALSE) = "BLST_SUCCESS"
                     gtsig    == Pairing_aggregated(sig)
                     verified == Pairing_finalverify(pairing, gtsig)
                 IN IF ~valid THEN "false"
                    ELSE "true"   \* the value of finalverify is dropped

aggregate_verify_bls12381_v1(pub_keys_and_msgs, sig_bytes, method, harness) ==
    IF ~perf_runs(method, harness) THEN "panic"
    ELSE IF from_bytes(sig_bytes).ok
    THEN aggregate_verify_bls12381_v1_no_threads(
             pub_keys_and_msgs, from_bytes(sig_bytes).point, method, harness)
    ELSE "false"

\* The stages one call runs, in order, each with its index (the pair's
\* position, 0 for the others) and whether it succeeded.
Stage(name, index, ok) == [stage |-> name, index |-> index, ok |-> ok]

RECURSIVE AggregateLoopStages(_, _, _)
AggregateLoopStages(pub_keys_and_msgs, i, pairing) ==
    IF i > Len(pub_keys_and_msgs) THEN <<>>
    ELSE LET pk == from_bytes(pub_keys_and_msgs[i].pk)
         IN IF pk.ok
            THEN LET r == Pairing_aggregate(pairing, pk.point, TRUE,
                                            pub_keys_and_msgs[i].msg)
                 IN IF r.err # "BLST_SUCCESS"
                    THEN << Stage("pk_from_bytes", i, TRUE),
                            Stage("pairing_aggregate", i, FALSE) >>
                    ELSE << Stage("pk_from_bytes", i, TRUE),
                            Stage("pairing_aggregate", i, TRUE) >>
                         \o AggregateLoopStages(pub_keys_and_msgs, i + 1, r.ctx)
            ELSE << Stage("pk_from_bytes", i, FALSE) >>

\* validate is entered before commit
aggregate_verify_bls12381_v1_no_threads_stages_early(pub_keys_and_msgs, sig, method, harness) ==
    IF ~perf_runs(method, harness) THEN <<>>
    ELSE LET aggregated == AggregateLoop(pub_keys_and_msgs, 1, Pairing_new)
             looped     == AggregateLoopStages(pub_keys_and_msgs, 1, Pairing_new)
         IN IF ~aggregated.ok THEN looped
            ELSE LET valid == validate(sig, FALSE) = "BLST_SUCCESS"
                 IN IF ~valid
                    THEN looped \o << Stage("validate", 0, FALSE) >>
                    ELSE looped \o << Stage("validate", 0, TRUE),
                                      Stage("pairing_commit", 0, TRUE),
                                      Stage("pairing_aggregated", 0, TRUE),
                                      Stage("pairing_verify", 0, TRUE) >>

aggregate_verify_bls12381_v1_no_threads_stages(pub_keys_and_msgs, sig, method, harness) ==
    IF ~perf_runs(method, harness) THEN <<>>
    ELSE LET aggregated == AggregateLoop(pub_keys_and_msgs, 1, Pairing_new)
             looped     == AggregateLoopStages(pub_keys_and_msgs, 1, Pairing_new)
         IN IF ~aggregated.ok THEN looped
            ELSE LET pairing  == Pairing_commit(aggregated.pairing)
                     valid    == validate(sig, FALSE) = "BLST_SUCCESS"
                     gtsig    == Pairing_aggregated(sig)
                     verified == Pairing_finalverify(pairing, gtsig)
                 IN IF ~valid
                    THEN looped \o << Stage("pairing_commit", 0, TRUE),
                                      Stage("validate", 0, FALSE) >>
                    ELSE looped \o << Stage("pairing_commit", 0, TRUE),
                                      Stage("validate", 0, TRUE),
                                      Stage("pairing_aggregated", 0, TRUE),
                                      Stage("pairing_verify", 0, verified) >>

aggregate_verify_bls12381_v1_stages(pub_keys_and_msgs, sig_bytes, method, harness) ==
    IF ~perf_runs(method, harness) THEN <<>>
    ELSE IF from_bytes(sig_bytes).ok
    THEN << Stage("sig_from_bytes", 0, TRUE) >>
         \o aggregate_verify_bls12381_v1_no_threads_stages(
                pub_keys_and_msgs, from_bytes(sig_bytes).point, method, harness)
    ELSE << Stage("sig_from_bytes", 0, FALSE) >>

aggregate_verify_bls12381_v1_threaded(pub_keys_and_msgs, sig_bytes) ==
    LET sig == from_bytes(sig_bytes)
        n   == Len(pub_keys_and_msgs)
    IN IF sig.ok
       THEN IF \E i \in 1..n : ~from_bytes(pub_keys_and_msgs[i].pk).ok
            THEN "false"
            ELSE LET pks      == [i \in 1..n |-> from_bytes(pub_keys_and_msgs[i].pk).point]
                     msg_refs == [i \in 1..n |-> pub_keys_and_msgs[i].msg]
                 IN Bool(Signature_aggregate_verify(sig.point, TRUE, msg_refs, pks, TRUE)
                             = "BLST_SUCCESS")
       ELSE "false"

\* the signature is checked against the first key instead of the aggregate
fast_aggregate_verify_bls12381_v1_first(msg, keys, sig_bytes) ==
    LET agg_pk == Bls12381G1PublicKey_aggregate(keys)
    IN IF agg_pk.ok THEN verify_bls12381_v1(msg, keys[1], sig_bytes)
       ELSE "false"

fast_aggregate_verify_bls12381_v1(msg, keys, sig_bytes) ==
    LET agg_pk == Bls12381G1PublicKey_aggregate(keys)
    IN IF agg_pk.ok THEN verify_bls12381_v1(msg, agg_pk.bytes, sig_bytes)
       ELSE "false"

----------------------------------------------------------------------------
(* The verification engine as a state machine                              *)

NoVerifyCall == [fn |-> "none", key |-> 0, out |-> "none"]

NoMeasurement == [state |-> "none", desc |-> "", evals |-> 0, count |-> 0,
                  result |-> [kind |-> "none"]]

NoKeyCall == [called |-> FALSE, len |-> 0, low |-> <<>>, ok |-> FALSE,
              bytes |-> [len |-> 0, low |-> <<>>]]

\* a panic ends the process
Alive == ret_agg # "panic"

\* cli::run stores the --measure-method argument, once, before any
\* measurement
run(method) ==
    /\ measure_method = ""
    /\ pairs = <<>>
    /\ ret_agg = "none" /\ ret_thr = "none"
    /\ perf_ret.state = "none"
    /\ measure_method' = method
    /\ UNCHANGED <<harness_ok, pairs, ret_agg, ret_thr, stages, signature,
                   verifyVars, calcVars, auxVars>>

\* the caller extends the pair list of the task
PushPair(pk, msg) ==
    /\ Alive
    /\ Len(pairs) < MaxPairs
    /\ pairs' = Append(pairs, [pk |-> pk, msg |-> msg])
    /\ ret_agg' = "none"
    /\ ret_thr' = "none"
    /\ stages' = <<>>
    /\ UNCHANGED <<measure_method, harness_ok, signature, verifyVars, calcVars, auxVars>>

AggregateVerify ==
    /\ Alive
    /\ ret_agg' = aggregate_verify_bls12381_v1(pairs, signature,
                                               measure_method, harness_ok)
    /\ stages' = aggregate_verify_bls12381_v1_stages(pairs, signature,
                                                     measure_method, harness_ok)
    /\ UNCHANGED <<measure_method, harness_ok, pairs, ret_thr, signature,
                   verifyVars, calcVars, auxVars>>

AggregateVerifyThreaded ==
    /\ Alive
    /\ ret_thr' = aggregate_verify_bls12381_v1_threaded(pairs, signature)
    /\ UNCHANGED <<measure_method, harness_ok, pairs, ret_agg, stages, signature,
                   verifyVars, calcVars, auxVars>>

AggNext ==
    \/ \E m \in Methods : run(m)
    \/ \E pk \in ByteCodes, msg \in Messages : PushPair(pk, msg)
    \/ AggregateVerify
    \/ AggregateVerifyThreaded

\* the caller extends the key list of the fast-aggregate task
PushKey(pk) ==
    /\ Len(public_keys) < MaxKeys
    /\ public_keys' = Append(public_keys, pk)
    /\ vret' = NoVerifyCall
    /\ UNCHANGED <<message, signature, aggVars, calcVars, auxVars>>

Verify(pk) ==
    /\ vret' = [fn |-> "verify", key |-> pk,
                out |-> verify_bls12381_v1(message, pk, signature)]
    /\ UNCHANGED <<message, public_keys, signature, aggVars, calcVars, auxVars>>

FastAggregateVerify ==
    /\ vret' = [fn |-> "fast", key |-> 0,
                out |-> fast_aggregate_verify_bls12381_v1(message, public_keys,
                                                          signature)]
    /\ UNCHANGED <<message, public_keys, signature, aggVars, calcVars, auxVars>>

VerifyNext ==
    \/ \E pk \in ByteCodes : PushKey(pk)
    \/ \E pk \in ByteCodes : Verify(pk)
    \/ FastAggregateVerify

----------------------------------------------------------------------------
(* Exact natural numbers                                                   *)

Base == 10^4

RECURSIVE BigOfInt(_)
BigOfInt(n) == IF n = 0 THEN <<>> ELSE <<n % Base>> \o BigOfInt(n \div Base)

RestOf(a) == IF a = <<>> THEN <<>> ELSE Tail(a)

LimbOf(a) == IF a = <<>> THEN 0 ELSE Head(a)

RECURSIVE BigAddC(_, _, _)
BigAddC(a, b, c) ==
    IF a = <<>> /\ b = <<>>
    THEN (IF c = 0 THEN <<>> ELSE <<c>>)
    ELSE LET s == LimbOf(a) + LimbOf(b) + c
         IN <<s % Base>> \o BigAddC(RestOf(a), RestOf(b), s \div Base)

BigAdd(a, b) == BigAddC(a, b, 0)

RECURSIVE BigMulLimb(_, _, _)
BigMulLimb(a, k, c) ==
    IF a = <<>>
    THEN BigOfInt(c)
    ELSE LET p == Head(a) * k + c
         IN <<p % Base>> \o BigMulLimb(Tail(a), k, p \div Base)

BigShift(a) == IF a = <<>> THEN <<>> ELSE <<0>> \o a

RECURSIVE BigMul(_, _)
BigMul(a, b) ==
    IF a = <<>> \/ b = <<>>
    THEN <<>>
    ELSE BigAdd(IF Head(b) = 0 THEN <<>> ELSE BigMulLimb(a, Head(b), 0),
                BigShift(BigMul(a, Tail(b))))

RECURSIVE BigLessFrom(_, _, _)
BigLessFrom(a, b, i) ==
    IF i = 0 THEN FALSE
    ELSE IF a[i] # b[i] THEN a[i] < b[i]
    ELSE BigLessFrom(a, b, i - 1)

BigLess(a, b) ==
    IF Len(a) # Len(b) THEN Len(a) < Len(b) ELSE BigLessFrom(a, b, Len(a))

BigLeq(a, b) == ~BigLess(b, a)

RECURSIVE BigStrip(_)
BigStrip(a) ==
    IF a = <<>> THEN <<>>
    ELSE IF a[Len(a)] = 0 THEN BigStrip(SubSeq(a, 1, Len(a) - 1))
    ELSE a

RECURSIVE BigSubB(_, _, _)
BigSubB(a, b, w) ==
    IF a = <<>> THEN <<>>
    ELSE LET d == Head(a) - LimbOf(b) - w
         IN IF d < 0
            THEN <<d + Base>> \o BigSubB(Tail(a), RestOf(b), 1)
            ELSE <<d>> \o BigSubB(Tail(a), RestOf(b), 0)

\* a - b, for b <= a
BigSub(a, b) == BigStrip(BigSubB(a, b, 0))

RECURSIVE BigDivFrom(_, _, _, _)
BigDivFrom(a, d, i, r) ==
    IF i = 0 THEN <<>>
    ELSE LET cur == r * Base + a[i]
         IN BigDivFrom(a, d, i - 1, cur % d) \o <<cur \div d>>

\* floor(a / d) for a small divisor d
BigDivSmall(a, d) == BigStrip(BigDivFrom(a, d, Len(a), 0))

RECURSIVE BigModFrom(_, _, _, _)
BigModFrom(a, d, i, r) ==
    IF i = 0 THEN r ELSE BigModFrom(a, d, i - 1, (r * Base + a[i]) % d)

\* a mod d, as an integer, for a small divisor d
BigModSmall(a, d) == BigModFrom(a, d, Len(a), 0)

U32Max == BigSub(BigMul(BigOfInt(65536), BigOfInt(65536)), BigOfInt(1))

TwoTo32 == BigMul(BigOfInt(65536), BigOfInt(65536))

FitsU32(a) == BigLeq(a, U32Max)

----------------------------------------------------------------------------
(* src/calc.rs: overflow-checked arithmetic.  A call that panics (unwrap   *)
(* of None / Err) yields Panic, and a panic in an argument propagates.     *)

Panic == <<-1>>

RECURSIVE BigModTwoTo32(_)
BigModTwoTo32(a) == IF FitsU32(a) THEN a ELSE BigModTwoTo32(BigSub(a, TwoTo32))

\* a truncating conversion (a as u32)
cast_truncating(a) ==
    IF a = Panic THEN Panic ELSE BigModTwoTo32(a)

cast(a) ==
    IF a = Panic THEN Panic
    ELSE IF FitsU32(a) THEN a ELSE Panic

\* a + b reduced modulo 2^32 (u32::wrapping_add)
add_wrapping(a, b) ==
    IF a = Panic \/ b = Panic THEN Panic
    ELSE IF FitsU32(BigAdd(a, b)) THEN BigAdd(a, b)
    ELSE BigSub(BigAdd(a, b), TwoTo32)

add(a, b) ==
    IF a = Panic \/ b = Panic THEN Panic
    ELSE IF FitsU32(BigAdd(a, b)) THEN BigAdd(a, b) ELSE Panic

\* a - b clamped at zero (u32::saturating_sub)
sub_saturating(a, b) ==
    IF a = Panic \/ b = Panic THEN Panic
    ELSE IF BigLeq(b, a) THEN BigSub(a, b) ELSE <<>>

sub(a, b) ==
    IF a = Panic \/ b = Panic THEN Panic
    ELSE IF BigLeq(b, a) THEN BigSub(a, b) ELSE Panic

mul(a, b) ==
    IF a = Panic \/ b = Panic THEN Panic
    ELSE IF FitsU32(BigMul(a, b)) THEN BigMul(a, b) ELSE Panic

\* the loop "for s in sizes" of calc_aggregate_verify_instructions_no_threaded
RECURSIVE SizesLoop(_, _, _)
SizesLoop(szs, i, instructions_cnt) ==
    IF i > Len(szs) THEN instructions_cnt
    ELSE SizesLoop(szs, i + 1,
             add(add(instructions_cnt, mul(BigOfInt(35), cast(szs[i]))),
                 BigOfInt(2620296)))

\* the table entered one place too far
CommitInstructions_shifted(r) ==
    CASE r = 0 -> 3051556
      [] r = 1 -> 5020768
      [] r = 2 -> 6990111
      [] r = 3 -> 8959454
      [] r = 4 -> 10928798
      [] r = 5 -> 12898141
      [] r = 6 -> 14867484
      [] r = 7 -> 0

\* the match on sizes.len() % 8
CommitInstructions(r) ==
    CASE r = 0 -> 0
      [] r = 1 -> 3051556
      [] r = 2 -> 5020768
      [] r = 3 -> 6990111
      [] r = 4 -> 8959454
      [] r = 5 -> 10928798
      [] r = 6 -> 12898141
      [] r = 7 -> 14867484

\* the batch bonus taken from the remainder instead of the quotient
calc_aggregate_verify_instructions_no_threaded_rem(szs) ==
    LET looped     == SizesLoop(szs, 1, BigOfInt(0))
        multiplier == cast(BigOfInt(Len(szs) % 8))
        batched    == add(looped, mul(multiplier, BigOfInt(16850000)))
        committed  == add(batched, BigOfInt(CommitInstructions(Len(szs) % 8)))
    IN add(committed, BigOfInt(281125 + 583573 + 3027639 + 4280077))

calc_aggregate_verify_instructions_no_threaded(szs) ==
    LET looped     == SizesLoop(szs, 1, BigOfInt(0))
        multiplier == cast(BigOfInt(Len(szs) \div 8))
        batched    == add(looped, mul(multiplier, BigOfInt(16850000)))
        committed  == add(batched, BigOfInt(CommitInstructions(Len(szs) % 8)))
    IN add(committed, BigOfInt(281125 + 583573 + 3027639 + 4280077))

\* the ratio applied the wrong way round
calc_aggregate_verify_instructions_threaded_inverse(no_threaded_instructions) ==
    mul(BigDivSmall(no_threaded_instructions, 121), BigOfInt(100))

\* the ratio applied as 12/10 per hundred
calc_aggregate_verify_instructions_threaded_ratio(no_threaded_instructions) ==
    mul(BigDivSmall(no_threaded_instructions, 1000), BigOfInt(1210))

calc_aggregate_verify_instructions_threaded(no_threaded_instructions) ==
    mul(BigDivSmall(no_threaded_instructions, 100), BigOfInt(121))

calc_verify_instructions(size) ==
    add(mul(cast(size), BigOfInt(36)), BigOfInt(15650000))

calc_fast_aggregate_verify_instructions(cnt, size) ==
    add(add(mul(cast(size), BigOfInt(36)), mul(cnt, BigOfInt(626056))),
        BigOfInt(15200000))

calc_signature_aggregate_instructions(cnt) ==
    sub(mul(cnt, BigOfInt(879554)), BigOfInt(500000))

----------------------------------------------------------------------------
(* Inputs of the cost model                                                *)

MaxSizes == 10

FreePrefix == 2

\* message sizes (usize): small ones, the largest that survives 35*s, the
\* smallest for which 35*s leaves u32, and the first that does not fit u32
SizeSet ==
    { BigOfInt(0), BigOfInt(10), BigOfInt(100000),
      BigOfInt(122713351), BigOfInt(122713352), TwoTo32 }

\* counts and instruction totals (u32)
U32Set ==
    { BigOfInt(0), BigOfInt(1), BigOfInt(99), BigOfInt(100), BigOfInt(10),
      BigOfInt(8172414), BigOfInt(4883), BigOfInt(4884), BigOfInt(6860),
      BigOfInt(6861), BigMul(BigOfInt(35495597), BigOfInt(100)),
      BigAdd(BigMul(BigOfInt(35495597), BigOfInt(100)), BigOfInt(100)),
      U32Max }

NoCall == [fn |-> "none", a |-> <<>>, b |-> <<>>, value |-> <<>>]

\* a panic ends the process
CalcAlive == ret.value # Panic

\* the caller extends the list of message sizes: any size in the first
\* FreePrefix places, then repetitions of the last one
PushSize(s) ==
    /\ CalcAlive
    /\ Len(sizes) < MaxSizes
    /\ IF Len(sizes) < FreePrefix THEN TRUE ELSE s = sizes[Len(sizes)]
    /\ sizes' = Append(sizes, s)
    /\ ret' = NoCall
    /\ UNCHANGED <<aggVars, signature, verifyVars, auxVars>>

ClearSizes ==
    /\ CalcAlive
    /\ sizes # <<>>
    /\ sizes' = <<>>
    /\ ret' = NoCall
    /\ UNCHANGED <<aggVars, signature, verifyVars, auxVars>>

\* The cost functions are pure.  The list function is applied to the current
\* list; the scalar ones, whose result does not depend on the list, are
\* explored from the empty list only.
CalcAggregateVerifyNoThreaded ==
    /\ CalcAlive
    /\ ret' = [fn |-> "no_threaded", a |-> <<>>, b |-> <<>>,
               value |-> calc_aggregate_verify_instructions_no_threaded(sizes)]
    /\ UNCHANGED <<sizes, aggVars, signature, verifyVars, auxVars>>

CalcAggregateVerifyThreaded(x) ==
    /\ CalcAlive
    /\ sizes = <<>>
    /\ ret' = [fn |-> "threaded", a |-> x, b |-> <<>>,
               value |-> calc_aggregate_verify_instructions_threaded(x)]
    /\ UNCHANGED <<sizes, aggVars, signature, verifyVars, auxVars>>

\* cli_measure_aggregate_verify: the threaded estimate is derived from the
\* non-threaded one of the same sizes
CalcThreadedOfNoThreaded ==
    /\ CalcAlive
    /\ LET no_threaded_instructions ==
               calc_aggregate_verify_instructions_no_threaded(sizes)
       IN ret' = [fn |-> "threaded_of", a |-> no_threaded_instructions, b |-> <<>>,
                  value |-> IF no_threaded_instructions = Panic THEN Panic
                            ELSE calc_aggregate_verify_instructions_threaded(
                                     no_threaded_instructions)]
    /\ UNCHANGED <<sizes, aggVars, signature, verifyVars, auxVars>>

CalcVerify(size) ==
    /\ CalcAlive
    /\ sizes = <<>>
    /\ ret' = [fn |-> "verify", a |-> size, b |-> <<>>,
               value |-> calc_verify_instructions(size)]
    /\ UNCHANGED <<sizes, aggVars, signature, verifyVars, auxVars>>

CalcFastAggregateVerify(cnt, size) ==
    /\ CalcAlive
    /\ sizes = <<>>
    /\ ret' = [fn |-> "fast", a |-> cnt, b |-> size,
               value |-> calc_fast_aggregate_verify_instructions(cnt, size)]
    /\ UNCHANGED <<sizes, aggVars, signature, verifyVars, auxVars>>

CalcSignatureAggregate(cnt) ==
    /\ CalcAlive
    /\ sizes = <<>>
    /\ ret' = [fn |-> "sig_aggregate", a |-> cnt, b |-> <<>>,
               value |-> calc_signature_aggregate_instructions(cnt)]
    /\ UNCHANGED <<sizes, aggVars, signature, verifyVars, auxVars>>

CalcNext ==
    \/ \E s \in SizeSet : PushSize(s)
    \/ ClearSizes
    \/ CalcAggregateVerifyNoThreaded
    \/ CalcThreadedOfNoThreaded
    \/ \E x \in U32Set : CalcAggregateVerifyThreaded(x)
    \/ \E s \in SizeSet : CalcVerify(s)
    \/ \E c \in U32Set, s \in SizeSet : CalcFastAggregateVerify(c, s)
    \/ \E c \in U32Set : CalcSignatureAggregate(c)

\* no measurement method stored yet, an empty task, nothing called; the
\* signature of the task and the state of the harness are inputs
(***************************************************************************)
(* perf!: one measurement of an expression under MEASURE_METHOD.  evals    *)
(* counts the evaluations of the measured expression, count is the         *)
(* reported instruction count (what the counter reads is an input).        *)
(***************************************************************************)
MaxInstr == 3

InstrCounts == 1..MaxInstr

\* an unrecognised method measures nothing and reports 0
perf_lenient(method, harness, desc, result, counted) ==
    CASE method \in {"count", "perf"} ->
             IF harness
             THEN [state |-> "done", desc |-> desc, evals |-> 1, count |-> counted,
                   result |-> result]
             ELSE [state |-> "panic", desc |-> desc, evals |-> 0, count |-> 0,
                   result |-> [kind |-> "none"]]
      [] OTHER ->
             [state |-> "done", desc |-> desc, evals |-> 1, count |-> 0,
              result |-> result]

perf(method, harness, desc, result, counted) ==
    CASE method \in {"count", "perf"} ->
             IF harness
             THEN [state |-> "done", desc |-> desc, evals |-> 1, count |-> counted,
                   result |-> result]
             ELSE [state |-> "panic", desc |-> desc, evals |-> 0, count |-> 0,
                   result |-> [kind |-> "none"]]
      [] method = "none" ->
             [state |-> "done", desc |-> desc, evals |-> 1, count |-> 0,
              result |-> result]
      [] OTHER ->
             [state |-> "panic", desc |-> desc, evals |-> 0, count |-> 0,
              result |-> [kind |-> "none"]]

hash_to_g2(msg) == to_bytes(blst_hash_to_g2(msg))

\* the process is gone after a panic, and a command measures once
cli_measure_hash_to_point(counted) ==
    /\ perf_ret.state = "none"
    /\ perf_ret' = perf(measure_method, harness_ok, "hash_to_point",
                        [kind |-> "point", point |-> hash_to_g2(message)], counted)
    /\ UNCHANGED <<kret, aggVars, signature, verifyVars, calcVars>>

\* get_aggregate_verify_test_data(1, 1, msg_size): one key signs one message
cli_measure_verify(sk, counted) ==
    /\ perf_ret.state = "none"
    /\ perf_ret' = perf(measure_method, harness_ok, "total agg",
                        [kind |-> "bool", sk |-> sk,
                         verified |-> verify_bls12381_v1(message, public_key(sk),
                                                         sign_v1(sk, message))],
                        counted)
    /\ UNCHANGED <<kret, aggVars, signature, verifyVars, calcVars>>

PerfNext ==
    \/ \E method \in Methods : run(method)
    \/ \E counted \in InstrCounts : cli_measure_hash_to_point(counted)
    \/ \E sk \in SecretKeys, counted \in InstrCounts : cli_measure_verify(sk, counted)

(***************************************************************************)
(* Bls12381G1PrivateKey::from_bytes and to_bytes.  A byte slice is its     *)
(* length and its last LowBytes bytes (the bytes before them are zero),    *)
(* bytes are digits below ByteBase, and the scalar field has GroupOrder    *)
(* elements.                                                               *)
(***************************************************************************)
LENGTH == 32

ByteBase == 4

LowBytes == 3

MaxLenDelta == 1

Slices ==
    [len : (LENGTH - MaxLenDelta)..(LENGTH + MaxLenDelta),
     low : [1..LowBytes -> 0..(ByteBase - 1)]]

RECURSIVE scalar_from_bendian(_)
scalar_from_bendian(bytes) ==
    IF bytes = <<>> THEN 0
    ELSE scalar_from_bendian(SubSeq(bytes, 1, Len(bytes) - 1)) * ByteBase
             + bytes[Len(bytes)]

RECURSIVE bendian_from_scalar(_, _)
bendian_from_scalar(value, n) ==
    IF n = 0 THEN <<>>
    ELSE Append(bendian_from_scalar(value \div ByteBase, n - 1), value % ByteBase)

sk_check(value) == value > 0 /\ value < GroupOrder

SecretKey_from_bytes(slice) ==
    IF slice.len # LENGTH THEN [ok |-> FALSE, sk |-> 0]
    ELSE LET value == scalar_from_bendian(slice.low)
         IN IF sk_check(value) THEN [ok |-> TRUE, sk |-> value]
            ELSE [ok |-> FALSE, sk |-> 0]

SecretKey_to_bytes(sk) == [len |-> LENGTH, low |-> bendian_from_scalar(sk, LowBytes)]

RECURSIVE lendian_from_scalar(_, _)
lendian_from_scalar(value, n) ==
    IF n = 0 THEN <<>>
    ELSE << value % ByteBase >> \o lendian_from_scalar(value \div ByteBase, n - 1)

\* the key written least significant byte first
Bls12381G1PrivateKey_to_bytes_lendian(sk) ==
    [len |-> LENGTH, low |-> lendian_from_scalar(sk, LowBytes)]

Bls12381G1PrivateKey_to_bytes(sk) ==
    SecretKey_to_bytes(sk)

Bls12381G1PrivateKey_from_bytes(slice) ==
    IF slice.len # LENGTH THEN [ok |-> FALSE, sk |-> 0]
    ELSE SecretKey_from_bytes(slice)

FromBytes(slice) ==
    /\ LET key == Bls12381G1PrivateKey_from_bytes(slice)
       IN kret' = [called |-> TRUE, len |-> slice.len, low |-> slice.low,
                   ok |-> key.ok,
                   bytes |-> IF key.ok THEN Bls12381G1PrivateKey_to_bytes(key.sk)
                             ELSE [len |-> 0, low |-> <<>>]]
    /\ UNCHANGED <<perf_ret, aggVars, signature, verifyVars, calcVars>>

KeyNext == \E slice \in Slices : FromBytes(slice)


AggInit ==
    /\ measure_method = ""
    /\ harness_ok \in BOOLEAN
    /\ pairs = <<>>
    /\ signature \in ByteCodes
    /\ ret_agg = "none"
    /\ ret_thr = "none"
    /\ stages = <<>>
    /\ perf_ret = NoMeasurement
    /\ kret = NoKeyCall
    /\ message = 0
    /\ public_keys = <<>>
    /\ vret = NoVerifyCall
    /\ sizes = <<>>
    /\ ret = NoCall

VerifyInit ==
    /\ measure_method = ""
    /\ harness_ok = TRUE
    /\ pairs = <<>>
    /\ signature \in ByteCodes
    /\ ret_agg = "none"
    /\ ret_thr = "none"
    /\ stages = <<>>
    /\ perf_ret = NoMeasurement
    /\ kret = NoKeyCall
    /\ message \in Messages
    /\ public_keys = <<>>
    /\ vret = NoVerifyCall
    /\ sizes = <<>>
    /\ ret = NoCall

CalcInit ==
    /\ measure_method = ""
    /\ harness_ok = TRUE
    /\ pairs = <<>>
    /\ signature = 0
    /\ ret_agg = "none"
    /\ ret_thr = "none"
    /\ stages = <<>>
    /\ perf_ret = NoMeasurement
    /\ kret = NoKeyCall
    /\ message = 0
    /\ public_keys = <<>>
    /\ vret = NoVerifyCall
    /\ sizes = <<>>
    /\ ret = NoCall

SpecAggregate == AggInit /\ [][AggNext]_vars

SpecVerify == VerifyInit /\ [][VerifyNext]_vars

SpecCalc == CalcInit /\ [][CalcNext]_vars

PerfInit ==
    /\ measure_method = ""
    /\ harness_ok \in BOOLEAN
    /\ pairs = <<>>
    /\ signature = 0
    /\ ret_agg = "none"
    /\ ret_thr = "none"
    /\ stages = <<>>
    /\ perf_ret = NoMeasurement
    /\ kret = NoKeyCall
    /\ message \in Messages
    /\ public_keys = <<>>
    /\ vret = NoVerifyCall
    /\ sizes = <<>>
    /\ ret = NoCall

KeyInit ==
    /\ measure_method = ""
    /\ harness_ok = TRUE
    /\ pairs = <<>>
    /\ signature = 0
    /\ ret_agg = "none"
    /\ ret_thr = "none"
    /\ stages = <<>>
    /\ perf_ret = NoMeasurement
    /\ kret = NoKeyCall
    /\ message = 0
    /\ public_keys = <<>>
    /\ vret = NoVerifyCall
    /\ sizes = <<>>
    /\ ret = NoCall

\* Byte strings that between them take every exit of a stage: the point at
\* infinity, two points of the group, a point outside it, an undecodable
\* string.
StageBytes == {0, 1, 2, OffGroupBytes, BadBytes}

StageNext ==
    \/ \E m \in Methods : run(m)
    \/ \E pk \in StageBytes : PushPair(pk, 0)
    \/ AggregateVerify

StageInit ==
    /\ measure_method = ""
    /\ harness_ok \in BOOLEAN
    /\ pairs = <<>>
    /\ signature \in StageBytes
    /\ ret_agg = "none"
    /\ ret_thr = "none"
    /\ stages = <<>>
    /\ perf_ret = NoMeasurement
    /\ kret = NoKeyCall
    /\ message = 0
    /\ public_keys = <<>>
    /\ vret = NoVerifyCall
    /\ sizes = <<>>
    /\ ret = NoCall

SpecStages == StageInit /\ [][StageNext]_vars

SpecPerf == PerfInit /\ [][PerfNext]_vars

SpecKey == KeyInit /\ [][KeyNext]_vars

----------------------------------------------------------------------------
(* Properties of the cost model                                            *)

BigAbsDiff(a, b) == IF BigLeq(b, a) THEN BigSub(a, b) ELSE BigSub(b, a)

RemainderTable ==
    << 0, 3051556, 5020768, 6990111, 8959454, 10928798, 12898141, 14867484 >>

RECURSIVE PerPairSum(_, _)
PerPairSum(szs, i) ==
    IF i > Len(szs) THEN <<>>
    ELSE BigAdd(BigAdd(BigMul(BigOfInt(35), szs[i]), BigOfInt(2620296)),
                PerPairSum(szs, i + 1))

\* sum(35*size + 2620296) + 16850000*floor(n/8) + T[n mod 8] + 8172414
NoThreadedFormula(szs) ==
    BigAdd(BigAdd(BigAdd(PerPairSum(szs, 1),
                         BigMul(BigOfInt(16850000), BigOfInt(Len(szs) \div 8))),
                  BigOfInt(RemainderTable[(Len(szs) % 8) + 1])),
           BigOfInt(8172414))

\* C8: whenever calc_aggregate_verify_instructions_no_threaded returns, its
\* value is sum(35*size + 2620296) + 16850000*floor(n/8) + T[n mod 8]
\* + 8172414, and for the empty list it is 8172414.
C8_NoThreadedClosedForm ==
    ret.fn = "no_threaded" =>
        /\ ret.value # Panic => ret.value = NoThreadedFormula(sizes)
        /\ sizes = <<>> => ret.value = BigOfInt(8172414)

\* a returned estimate for more than 8 pairs (batch bonus and remainder term)
C8_Witness ==
    /\ ret.fn = "no_threaded"
    /\ ret.value # Panic
    /\ Len(sizes) = 9

AllFitU32(szs) == \A i \in 1..Len(szs) : FitsU32(szs[i])

\* what an exact evaluation that aborts on leaving 0..2^32-1 gives
ExactOrPanic(fits, v) == IF fits /\ FitsU32(v) THEN v ELSE Panic

ExactValue(call, szs) ==
    CASE call.fn = "no_threaded" ->
             ExactOrPanic(AllFitU32(szs), NoThreadedFormula(szs))
      [] call.fn = "threaded" ->
             ExactOrPanic(TRUE, BigMul(BigOfInt(121), BigDivSmall(call.a, 100)))
      [] call.fn = "threaded_of" ->
             LET n == ExactOrPanic(AllFitU32(szs), NoThreadedFormula(szs))
             IN IF n = Panic THEN Panic
                ELSE ExactOrPanic(TRUE, BigMul(BigOfInt(121), BigDivSmall(n, 100)))
      [] call.fn = "verify" ->
             ExactOrPanic(FitsU32(call.a),
                          BigAdd(BigMul(BigOfInt(36), call.a), BigOfInt(15650000)))
      [] call.fn = "fast" ->
             ExactOrPanic(FitsU32(call.b),
                          BigAdd(BigAdd(BigMul(BigOfInt(36), call.b),
                                        BigMul(BigOfInt(626056), call.a)),
                                 BigOfInt(15200000)))
      [] call.fn = "sig_aggregate" ->
             LET m == BigMul(BigOfInt(879554), call.a)
             IN IF FitsU32(m) /\ BigLeq(BigOfInt(500000), m)
                THEN BigSub(m, BigOfInt(500000))
                ELSE Panic

\* C9: every cost function returns the exact mathematical value of its
\* formula, and panics instead of returning a value reduced modulo 2^32
\* whenever a size does not fit u32 or a step leaves 0..2^32-1.
C9_CheckedArithmetic ==
    ret.fn # "none" => ret.value = ExactValue(ret, sizes)

\* an aggregate estimate that aborts on an addition or multiplication
\* although every size fits in 32 bits
C9_Witness ==
    /\ ret.fn = "no_threaded"
    /\ sizes # <<>>
    /\ AllFitU32(sizes)
    /\ ret.value = Panic

\* C10 (as stated): the threaded estimate differs from 121*x/100 by less
\* than 1, i.e. |100*result - 121*x| < 100.
C10_WithinOne ==
    ret.fn = "threaded" /\ ret.value # Panic =>
        BigLess(BigAbsDiff(BigMul(BigOfInt(100), ret.value),
                           BigMul(BigOfInt(121), ret.a)),
                BigOfInt(100))

\* C10 (amended): the threaded estimate never exceeds 121*x/100 and falls
\* short of it by less than 120, i.e. 0 <= 121*x - 100*result < 12000.
C10_WithinTruncation ==
    ret.fn = "threaded" /\ ret.value # Panic =>
        /\ BigLeq(BigMul(BigOfInt(100), ret.value), BigMul(BigOfInt(121), ret.a))
        /\ BigLess(BigAbsDiff(BigMul(BigOfInt(100), ret.value),
                              BigMul(BigOfInt(121), ret.a)),
                   BigOfInt(12000))

\* a returned threaded estimate for an x that is not a multiple of 100
C10_Witness ==
    /\ ret.fn = "threaded"
    /\ ret.value # Panic
    /\ BigModSmall(ret.a, 100) # 0
    /\ BigLess(BigOfInt(1000), ret.a)

\* sizes with entry i replaced by s
WithSize(szs, i, s) == [szs EXCEPT ![i] = s]

\* C11: for a fixed number of pairs the non-threaded estimate is
\* non-decreasing in each message size: shrinking one entry of the list
\* never gives a larger result, whenever both calls return.
C11_MonotoneInEachSize ==
    (ret.fn = "no_threaded" /\ ret.value # Panic) =>
        \A i \in 1..Len(sizes) : \A s \in SizeSet :
            LET smaller == calc_aggregate_verify_instructions_no_threaded(
                               WithSize(sizes, i, s))
            IN (BigLess(s, sizes[i]) /\ smaller # Panic)
                   => BigLeq(smaller, ret.value)

\* a returned estimate for two pairs that is strictly above the estimate
\* with the second size shrunk
C11_Witness ==
    /\ ret.fn = "no_threaded"
    /\ ret.value # Panic
    /\ Len(sizes) = 2
    /\ \E s \in SizeSet :
          /\ BigLess(s, sizes[2])
          /\ BigLess(calc_aggregate_verify_instructions_no_threaded(
                         WithSize(sizes, 2, s)), ret.value)

AllSameSize(szs) == \A i \in 1..Len(szs) : szs[i] = szs[1]

\* C12: for lists of n and n+8 messages of one size s the estimates differ
\* by exactly 8*(35*s + 2620296) + 16850000, and the remainder term is 0
\* when the pair count is a multiple of 8.
C12_PeriodEight ==
    (ret.fn = "no_threaded" /\ ret.value # Panic) =>
        /\ (Len(sizes) >= 8 /\ AllSameSize(sizes)) =>
               LET shorter == calc_aggregate_verify_instructions_no_threaded(
                                  SubSeq(sizes, 1, Len(sizes) - 8))
               IN /\ shorter # Panic
                  /\ ret.value =
                         BigAdd(shorter,
                                BigAdd(BigMul(BigOfInt(8),
                                              BigAdd(BigMul(BigOfInt(35), sizes[1]),
                                                     BigOfInt(2620296))),
                                       BigOfInt(16850000)))
        /\ Len(sizes) % 8 = 0 =>
               ret.value = BigAdd(BigAdd(PerPairSum(sizes, 1),
                                         BigMul(BigOfInt(16850000),
                                                BigOfInt(Len(sizes) \div 8))),
                                  BigOfInt(8172414))

\* a returned estimate for 9 messages of one size
C12_Witness ==
    /\ ret.fn = "no_threaded"
    /\ ret.value # Panic
    /\ Len(sizes) = 9
    /\ AllSameSize(sizes)

\* C13: calc_signature_aggregate_instructions(cnt) returns 879554*cnt -
\* 500000 when that is non-negative and fits in 32 bits, and panics when it
\* would be negative, which is the case exactly for cnt = 0.
C13_SignatureAggregate ==
    ret.fn = "sig_aggregate" =>
        LET product == BigMul(BigOfInt(879554), ret.a)
        IN /\ BigLess(product, BigOfInt(500000)) <=> ret.a = <<>>
           /\ ret.a = <<>> => ret.value = Panic
           /\ (ret.a # <<>> /\ FitsU32(BigSub(product, BigOfInt(500000))))
                  => ret.value = BigSub(product, BigOfInt(500000))
           /\ ret.value # Panic => ret.value = BigSub(product, BigOfInt(500000))

\* the call with cnt = 0, which panics
C13_Witness ==
    /\ ret.fn = "sig_aggregate"
    /\ ret.a = <<>>
    /\ ret.value = Panic

\* C16: whenever both calls return, the threaded estimate derived from the
\* non-threaded one is strictly larger than it.
C16_ThreadedAboveNoThreaded ==
    (ret.fn = "threaded_of" /\ ret.value # Panic) =>
        /\ ret.a = calc_aggregate_verify_instructions_no_threaded(sizes)
        /\ BigLess(ret.a, ret.value)

\* both estimates returned for a non-empty list
C16_Witness ==
    /\ ret.fn = "threaded_of"
    /\ ret.value # Panic
    /\ Len(sizes) >= 1

----------------------------------------------------------------------------
(* Properties of the verification engine                                   *)

\* sig is the aggregate of the signatures of prs[i].msg under the secret
\* key of prs[i].pk, for i = 1..Len(prs)
IsAggregateOf(prs, sig) ==
    /\ Len(prs) >= 1
    /\ \E sks \in [1..Len(prs) -> SecretKeys] :
          /\ \A i \in 1..Len(prs) : prs[i].pk = public_key(sks[i])
          /\ LET agg == Bls12381G2Signature_aggregate(
                            [i \in 1..Len(prs) |-> sign_v1(sks[i], prs[i].msg)])
             IN agg.ok /\ agg.bytes = sig

\* the call completed with a boolean
Returned(out) == out \in {"true", "false"}

\* C1: on the same pairs and signature the non-threaded and the threaded
\* aggregate verification return the same boolean.
C1_SameOutcome ==
    (Returned(ret_agg) /\ Returned(ret_thr)) => ret_agg = ret_thr

PairwiseDistinctMsgs(prs) ==
    \A i, j \in 1..Len(prs) : i # j => prs[i].msg # prs[j].msg

\* the task is the honest task orig with its messages permuted so that
\* some key is paired with a message it did not sign
PermutedFrom(orig) ==
    /\ Len(orig) = Len(pairs)
    /\ \A i \in 1..Len(pairs) : orig[i].pk = pairs[i].pk
    /\ \E f \in Permutations(1..Len(pairs)) :
          \A i \in 1..Len(pairs) : pairs[i].msg = orig[f[i]].msg
    /\ \E i \in 1..Len(pairs) :
          \A j \in 1..Len(pairs) :
              orig[j].pk = pairs[i].pk => orig[j].msg # pairs[i].msg

\* C2: with the aggregate signature of N keys over N pairwise distinct
\* messages, aggregate_verify_bls12381_v1 returns false once the message
\* list is permuted against the key list.
C2_PermutedMessagesFail ==
    ( /\ Returned(ret_agg)
      /\ PairwiseDistinctMsgs(pairs)
      /\ \E orig \in [1..Len(pairs) -> [pk : ByteCodes, msg : Messages]] :
             IsAggregateOf(orig, signature) /\ PermutedFrom(orig) )
    => ret_agg = "false"

HonestPairs == [pk : {public_key(sk) : sk \in SecretKeys}, msg : Messages]

\* the task is a strict prefix of a pair list whose aggregate the signature is
StrictPrefixOfSigned ==
    \E k \in 1..MaxPairs : \E ext \in [1..k -> HonestPairs] :
        IsAggregateOf(pairs \o ext, signature)

\* C3: aggregate_verify_bls12381_v1 returns false for a strict prefix of
\* the pair list whose signatures were aggregated.
C3_TruncatedListFails ==
    (Returned(ret_agg) /\ StrictPrefixOfSigned) => ret_agg = "false"

\* C4: aggregate_verify_bls12381_v1 returns true for N >= 1 pairs and the
\* aggregate of exactly their N signatures.
C4_HonestAggregateVerifies ==
    (ret_agg # "none" /\ IsAggregateOf(pairs, signature)) => ret_agg = "true"

\* C5: verify_bls12381_v1 returns true or false and never panics; false
\* whenever the signature or the key fails to decode; true only when both
\* decode and the library's pairing check succeeds.
C5_VerifyTotalBoolean ==
    vret.fn = "verify" =>
        /\ vret.out \in {"true", "false"}
        /\ (~from_bytes(signature).ok \/ ~from_bytes(vret.key).ok)
               => vret.out = "false"
        /\ vret.out = "true" =>
               /\ from_bytes(signature).ok
               /\ from_bytes(vret.key).ok
               /\ Signature_verify(from_bytes(signature).point, TRUE, message,
                                   from_bytes(vret.key).point, TRUE)
                      = "BLST_SUCCESS"

\* verify was called with a decodable signature and key bytes that do not
\* decode
C5_Witness ==
    /\ vret.fn = "verify"
    /\ from_bytes(signature).ok
    /\ ~from_bytes(vret.key).ok
    /\ vret.out = "false"

\* K >= 1 keys each signed the message and the signature is the aggregate
HonestFastAggregate ==
    IsAggregateOf([i \in 1..Len(public_keys) |->
                       [pk |-> public_keys[i], msg |-> message]], signature)

FastDelegates ==
    LET agg == Bls12381G1PublicKey_aggregate(public_keys)
    IN /\ ~agg.ok => vret.out = "false"
       /\ agg.ok => vret.out = verify_bls12381_v1(message, agg.bytes, signature)

\* C6 (as stated): fast_aggregate_verify_bls12381_v1 returns false when
\* aggregating the keys fails, otherwise the result of verify_bls12381_v1
\* on the aggregated key, and in particular true for K keys that each
\* signed the message and the aggregate of their K signatures.
C6_FastAggregate ==
    vret.fn = "fast" =>
        /\ FastDelegates
        /\ HonestFastAggregate => vret.out = "true"

\* C6 (amended): as above, the honest case returning true provided the
\* aggregated key is not the point at infinity.
C6_FastAggregateNonZeroKey ==
    vret.fn = "fast" =>
        /\ FastDelegates
        /\ ( /\ HonestFastAggregate
             /\ ~is_inf(from_bytes(Bls12381G1PublicKey_aggregate(public_keys).bytes).point) )
           => vret.out = "true"

\* two keys signed the message, the aggregate verifies
C6_Witness ==
    /\ vret.fn = "fast"
    /\ Len(public_keys) = 2
    /\ HonestFastAggregate
    /\ vret.out = "true"

\* C7: the outcome of aggregate_verify_bls12381_v1 is the same under every
\* value of the measurement method selector.
C7_MethodIndependent ==
    ret_agg # "none" =>
        \A m \in Methods \cup {""} :
            aggregate_verify_bls12381_v1(pairs, signature, m, harness_ok) = ret_agg

\* the stages of a call on n pairs that runs to the end
StageOrder(n) ==
    [k \in 1..(2 * n + 5) |->
        IF k = 1 THEN [stage |-> "sig_from_bytes", index |-> 0]
        ELSE IF k <= 2 * n + 1
        THEN [stage |-> IF k % 2 = 0 THEN "pk_from_bytes" ELSE "pairing_aggregate",
              index |-> k \div 2]
        ELSE [stage |-> << "pairing_commit", "validate", "pairing_aggregated",
                           "pairing_verify" >>[k - (2 * n + 1)],
              index |-> 0]]

\* C17: a non-threaded aggregate verification runs decode signature, then
\* per pair in list order decode key and aggregate, then commit, validate,
\* pair the signature, final-verify; it stops at the first failed stage
\* before final-verify and returns false there, so a signature decode
\* failure precedes every pair, a key failure precedes commit and the later
\* pairs, and a validation failure precedes final-verify.
C17_StageOrder ==
    /\ Len(stages) <= 2 * Len(pairs) + 5
    /\ \A k \in 1..Len(stages) :
          /\ [stage |-> stages[k].stage, index |-> stages[k].index]
                 = StageOrder(Len(pairs))[k]
          /\ k < Len(stages) => stages[k].ok
    /\ Returned(ret_agg) =>
          /\ Len(stages) >= 1
          /\ LET last == stages[Len(stages)]
             IN IF ~last.ok /\ last.stage # "pairing_verify"
                THEN ret_agg = "false"
                ELSE Len(stages) = 2 * Len(pairs) + 5

\* the second pair's key failed to decode or to aggregate: the call
\* returned false without commit
C17_Witness ==
    /\ ret_agg = "false"
    /\ Len(pairs) = 2
    /\ Len(stages) >= 4
    /\ stages[Len(stages)].index = 2
    /\ ~stages[Len(stages)].ok

RecognisedMethods == {"count", "perf", "none"}

\* C14: a measurement under a method name other than "count", "perf" or
\* "none" panics with the measured expression never evaluated; under "none"
\* the expression is evaluated exactly once and the count reported is 0.
C14_UnknownMethodFatal ==
    perf_ret.state # "none" =>
        /\ measure_method \notin RecognisedMethods =>
              perf_ret.state = "panic" /\ perf_ret.evals = 0
        /\ measure_method = "none" =>
              /\ perf_ret.state = "done"
              /\ perf_ret.evals = 1
              /\ perf_ret.count = 0

C14_Witness ==
    /\ measure_method = "bogus"
    /\ perf_ret.state = "panic"
    /\ perf_ret.desc = "total agg"

\* C15: from_bytes fails on every slice whose length is not 32 and on every
\* 32-byte slice that is not a scalar in 1..r-1, and to_bytes of a key it
\* returns is the slice it was given.
C15_FromBytesRoundTrip ==
    kret.called =>
        /\ kret.len # 32 => ~kret.ok
        /\ scalar_from_bendian(kret.low) \notin 1..(GroupOrder - 1) => ~kret.ok
        /\ kret.ok => kret.bytes = [len |-> kret.len, low |-> kret.low]

\* an accepted slice whose bytes are not a palindrome
C15_Witness ==
    /\ kret.called
    /\ kret.ok
    /\ kret.low[LowBytes] # kret.low[1]

====
